---------------------------- MODULE Spec2Model ----------------------------
(***************************************************************************)
(* State-machine model of src/server.js (OverUnderRated game server).      *)
(*                                                                         *)
(* The model follows ONE lobby code.  lobbies / gameStates are the entries *)
(* of the two Maps under that code, disconnectedPlayers is the whole Map   *)
(* (it is keyed by username).  The JavaScript heap matters: start-game     *)
(* builds a NEW gameState object while the setInterval / setTimeout        *)
(* closures of the old object stay alive, so session objects are kept in   *)
(* `objects` and gameStates holds the index of the object stored under the *)
(* code (0 = no entry).                                                    *)
(*                                                                         *)
(* Timers fire in any order relative to each other and to player actions;  *)
(* wall-clock time is kept only as the age of each disconnection record.   *)
(*                                                                         *)
(* Sockets are not state of the server: a client may hold any number of    *)
(* sockets bound to a username by join-lobby, so a disconnect or a         *)
(* restart-game from a socket whose socket.username is u can arrive in     *)
(* every state.  Image paths and the currentImage field are left out: the  *)
(* catalog is a sequence of file ids and rounds record catalog positions.  *)
(***************************************************************************)
EXTENDS Integers, Sequences, FiniteSets, TLC

(***************************************************************************)
(* Bounds of the model.  The durations and the round count are the         *)
(* program's constants scaled down: server.js uses 60 (discussion),        *)
(* 30 (voting), 30 (totalRounds) and a grace period of 5 sweep intervals.  *)
(***************************************************************************)
DiscussionSeconds == 1
VotingSeconds == 2
TotalRounds == 2
GraceTicks == 0
MaxImages == 2
MaxSessions == 2
MaxPending == 2
MaxCount == 4
MaxSync == 1

Users == {"alice", "bob"}
\* server.js treats all usernames alike: the creator of the lobby is alice.
Creators == {"alice"}
Categories == {"overrated", "fairlyRated", "underrated"}
\* The values cast-vote is sent (it does not validate them).
VoteInputs == Categories

\* No lobby under the code: not created yet, or deleted.  generateLobbyCode
\* draws a fresh code for every lobby, so a deleted one is never re-created.
NoLobby == [exists |-> FALSE, closed |-> FALSE]
ClosedLobby == [exists |-> FALSE, closed |-> TRUE]
\* The score undefined + 1 (no number the program computes is negative).
NaN == -1
Null == "null"
\* No 'sync-game-state' message has been emitted.
NoMessage == [sent |-> FALSE]

VARIABLES
    gameImages,          \* catalog: sequence of image file ids
    lobbies,             \* lobbies.get(code): NoLobby or the lobby object
    gameStates,          \* gameStates.get(code): 0 or an index into objects
    objects,             \* every gameState object ever built for the code
    disconnectedPlayers, \* username -> Date.now() - timestamp, in ticks
    timeouts,            \* pending setTimeout callbacks
    rejoined,            \* history: users who joined again while their
                         \*   disconnection record was within the grace period
    tallyInput,          \* inputs / output of the majority computation,
    tallyOutput,         \*   used by SpecTally only
    syncTimeouts,        \* pending setTimeout callbacks of join-lobby that
                         \*   will call syncGameStateToPlayer
    syncMessage          \* the last 'sync-game-state' message emitted;
                         \*   both are followed by SpecSync only

vars == <<gameImages, lobbies, gameStates, objects, disconnectedPlayers,
          timeouts, rejoined, tallyInput, tallyOutput, syncTimeouts,
          syncMessage>>

tallyVars == <<tallyInput, tallyOutput>>

syncVars == <<syncTimeouts, syncMessage>>

-----------------------------------------------------------------------------
(* Helpers *)

RECURSIVE SeqSum(_)
SeqSum(s) == IF s = <<>> THEN 0 ELSE Head(s) + SeqSum(Tail(s))

Range(s) == {s[i] : i \in DOMAIN s}

\* The catalogs loadImages can produce: readdirSync lists distinct files.
Catalogs ==
    {s \in UNION {[1..n -> 1..MaxImages] : n \in 0..MaxImages} :
        \A i, j \in DOMAIN s : i < j => s[i] < s[j]}

\* Array.prototype.indexOf, 1-based (0 = not found).
IndexOf(s, x) ==
    IF \E i \in DOMAIN s : s[i] = x
    THEN CHOOSE i \in DOMAIN s : s[i] = x /\ \A j \in 1..(i - 1) : s[j] # x
    ELSE 0

\* lobby.participants.find(p => p.username === username): index or 0.
FindParticipant(parts, u) ==
    IF \E i \in DOMAIN parts : parts[i].username = u
    THEN CHOOSE i \in DOMAIN parts :
            parts[i].username = u /\ \A j \in 1..(i - 1) : parts[j].username # u
    ELSE 0

SetConnected(parts, u, b) ==
    LET i == FindParticipant(parts, u)
    IN  IF i = 0 THEN parts ELSE [parts EXCEPT ![i].connected = b]

\* lobby.participants.filter(p => p.username !== username)
RemoveParticipant(parts, u) == SelectSeq(parts, LAMBDA p : p.username # u)

IsParticipant(u) ==
    lobbies.exists /\ FindParticipant(lobbies.participants, u) # 0

\* obj[key] = value on a JavaScript object used as a map.
Put(f, k, v) == [x \in DOMAIN f \cup {k} |-> IF x = k THEN v ELSE f[x]]

ZeroResults == [overrated |-> 0, fairlyRated |-> 0, underrated |-> 0]

NoTimeouts ==
    [startDiscussionPhase |-> 0, showScoreboard |-> 0,
     roundAdvance |-> [i \in 1..MaxSessions |-> 0]]

PendingCount ==
    timeouts.startDiscussionPhase + timeouts.showScoreboard
        + SeqSum(timeouts.roundAdvance)

\* The session stored under the code (only used where gameStates # 0).
Session == objects[gameStates]

HasSession == gameStates # 0

-----------------------------------------------------------------------------
Init ==
    /\ gameImages \in Catalogs
    /\ lobbies = NoLobby
    /\ gameStates = 0
    /\ objects = <<>>
    /\ disconnectedPlayers = <<>>
    /\ timeouts = NoTimeouts
    /\ rejoined = {}
    /\ tallyInput = ZeroResults
    /\ tallyOutput = "unset"
    /\ syncTimeouts = <<>>
    /\ syncMessage = NoMessage

\* setInterval(loadImages, 5 * 60 * 1000)
LoadImages ==
    /\ gameImages' \in Catalogs
    /\ UNCHANGED <<lobbies, gameStates, objects, disconnectedPlayers,
                   timeouts, rejoined, tallyVars,
                   syncVars>>

\* POST /api/lobby/create.  The model follows the first lobby created.
ApiCreate(u) ==
    /\ lobbies = NoLobby
    /\ lobbies' = [exists |-> TRUE, host |-> u,
                   participants |->
                       <<[username |-> u, isHost |-> TRUE, connected |-> TRUE]>>,
                   gameStarted |-> FALSE]
    /\ UNCHANGED <<gameImages, gameStates, objects, disconnectedPlayers,
                   timeouts, rejoined, tallyVars,
                   syncVars>>

\* History only: u joins again (an existing participant is marked connected)
\* while u's disconnection record is no older than the grace period.
Rejoined(u) ==
    IF /\ IsParticipant(u)
       /\ u \in DOMAIN disconnectedPlayers
       /\ disconnectedPlayers[u] <= GraceTicks
    THEN rejoined \cup {u}
    ELSE rejoined

\* POST /api/lobby/join
ApiJoin(u) ==
    /\ rejoined' = Rejoined(u)
    /\ IF ~lobbies.exists
       THEN UNCHANGED <<lobbies, objects>>
       ELSE IF FindParticipant(lobbies.participants, u) # 0
       THEN /\ lobbies' = [lobbies EXCEPT
                              !.participants = SetConnected(@, u, TRUE)]
            /\ UNCHANGED objects
       ELSE /\ lobbies' = [lobbies EXCEPT !.participants = Append(@,
                      [username |-> u, isHost |-> FALSE, connected |-> TRUE])]
            /\ objects' = IF HasSession
                          THEN [objects EXCEPT
                                  ![gameStates].scores = Put(@, u, 0)]
                          ELSE objects
    /\ UNCHANGED <<gameImages, gameStates, disconnectedPlayers,
                   timeouts, tallyVars,
                   syncVars>>

\* socket.on('join-lobby').  The 'sync-game-state' emission it schedules
\* reads the state without changing it; JoinLobbyThenSync follows it.
JoinLobby(u) ==
    /\ rejoined' = Rejoined(u)
    /\ lobbies' = IF lobbies.exists
                  THEN [lobbies EXCEPT
                          !.participants = SetConnected(@, u, TRUE)]
                  ELSE lobbies
    /\ UNCHANGED <<gameImages, gameStates, objects, disconnectedPlayers,
                   timeouts, tallyVars,
                   syncVars>>

\* History only: the phase and the timer of the session at the moment a
\* resynchronization is asked for.
AsRequested ==
    IF HasSession
    THEN [phase |-> Session.phase, timer |-> Session.timer]
    ELSE [phase |-> Null, timer |-> 0]

\* socket.on('join-lobby'), with the callback of its
\* setTimeout(() => syncGameStateToPlayer(socket.id, code), 1000) queued.
JoinLobbyThenSync(u) ==
    /\ Len(syncTimeouts) < MaxSync
    /\ rejoined' = Rejoined(u)
    /\ lobbies' = IF lobbies.exists
                  THEN [lobbies EXCEPT
                          !.participants = SetConnected(@, u, TRUE)]
                  ELSE lobbies
    /\ syncTimeouts' =
           IF lobbies.exists /\ HasSession /\ Session.phase # "waiting"
           THEN Append(syncTimeouts,
                       [username |-> u, requested |-> AsRequested])
           ELSE syncTimeouts
    /\ UNCHANGED <<gameImages, gameStates, objects, disconnectedPlayers,
                   timeouts, tallyVars, syncMessage>>

\* Faulty variant of SyncPayload: the phase and the timer are those of the
\* moment the resynchronization was asked for.
SyncPayloadAsRequested(o, requested) ==
    [phase |-> requested.phase, roundNumber |-> o.roundNumber,
     timer |-> requested.timer, scores |-> o.scores,
     voteResults |-> o.voteResults]

\* The gameState part of the 'sync-game-state' message.
SyncPayload(o, requested) ==
    [phase |-> o.phase, roundNumber |-> o.roundNumber, timer |-> o.timer,
     scores |-> o.scores, voteResults |-> o.voteResults]

\* syncGameStateToPlayer(socketId, code) for a socket of u that is still
\* open: the message emitted, or the last one when nothing is emitted.
SyncGameStateToPlayer(u, requested) ==
    IF ~HasSession \/ ~lobbies.exists
    THEN syncMessage
    ELSE [sent |-> TRUE, to |-> u, requested |-> requested,
          gameState |-> SyncPayload(Session, requested)]

\* The 1-second timeout of join-lobby fires; the socket may be gone.
FireSync ==
    /\ syncTimeouts # <<>>
    /\ syncTimeouts' = Tail(syncTimeouts)
    /\ \E open \in BOOLEAN :
           syncMessage' =
               IF open
               THEN SyncGameStateToPlayer(Head(syncTimeouts).username,
                                          Head(syncTimeouts).requested)
               ELSE syncMessage
    /\ UNCHANGED <<gameImages, lobbies, gameStates, objects,
                   disconnectedPlayers, timeouts, rejoined, tallyVars>>

\* socket.on('request-sync'), from a socket whose socket.username is u.
RequestSync(u) ==
    /\ syncMessage' = SyncGameStateToPlayer(u, AsRequested)
    /\ UNCHANGED <<gameImages, lobbies, gameStates, objects,
                   disconnectedPlayers, timeouts, rejoined, tallyVars,
                   syncTimeouts>>

\* An object no longer stored in gameStates is reachable only from its own
\* timer closures, which use timer, timerInterval, roundNumber, totalRounds,
\* usedImages and (write-only) phase: its other fields are dropped.
Orphan(o) ==
    [o EXCEPT !.phase = "discussion", !.votes = <<>>,
              !.scores = <<>>, !.voteResults = ZeroResults]

Orphaned(objs, g) == IF g = 0 THEN objs ELSE [objs EXCEPT ![g] = Orphan(@)]

\* gameState && gameState.phase !== 'waiting'
SessionActive == HasSession /\ Session.phase # "waiting"

\* The shared body of leave-lobby and disconnect once the lobby is found.
Depart(u) ==
    IF SessionActive
    THEN /\ IF FindParticipant(lobbies.participants, u) # 0
            THEN /\ lobbies' = [lobbies EXCEPT
                                  !.participants = SetConnected(@, u, FALSE)]
                 /\ disconnectedPlayers' = Put(disconnectedPlayers, u, 0)
                 /\ rejoined' = rejoined \ {u}
            ELSE UNCHANGED <<lobbies, disconnectedPlayers, rejoined>>
         /\ UNCHANGED gameStates
    ELSE LET rest == RemoveParticipant(lobbies.participants, u)
         IN  /\ IF Len(rest) = 0 \/ u = lobbies.host
                THEN lobbies' = ClosedLobby /\ gameStates' = 0
                ELSE /\ lobbies' = [lobbies EXCEPT !.participants = rest]
                     /\ UNCHANGED gameStates
             /\ UNCHANGED <<disconnectedPlayers, rejoined>>

\* socket.on('leave-lobby')
LeaveLobby(u) ==
    /\ IF lobbies.exists
       THEN /\ Depart(u)
            /\ objects' = IF gameStates' = 0
                          THEN Orphaned(objects, gameStates) ELSE objects
       ELSE UNCHANGED <<lobbies, gameStates, objects, disconnectedPlayers,
                        rejoined>>
    /\ UNCHANGED <<gameImages, timeouts, tallyVars,
                   syncVars>>

LiveIntervals == {"startVotingPhase", "calculateResults"}

\* if (gameState.timerInterval) clearInterval(gameState.timerInterval):
\* the handle stays in the field, its interval is cancelled.
ClearInterval(o) ==
    IF o.timerInterval \in LiveIntervals
    THEN [o EXCEPT !.timerInterval = "cleared"]
    ELSE o

\* socket.on('disconnect')
Disconnect(u) ==
    /\ IF lobbies.exists /\ FindParticipant(lobbies.participants, u) # 0
       THEN /\ Depart(u)
            /\ objects' =
                 IF /\ ~SessionActive
                    /\ HasSession
                    /\ \/ Len(RemoveParticipant(lobbies.participants, u)) = 0
                       \/ u = lobbies.host
                 THEN Orphaned([objects EXCEPT ![gameStates] = ClearInterval(@)],
                               gameStates)
                 ELSE IF gameStates' = 0
                 THEN Orphaned(objects, gameStates) ELSE objects
       ELSE UNCHANGED <<lobbies, gameStates, objects, disconnectedPlayers,
                        rejoined>>
    /\ UNCHANGED <<gameImages, timeouts, tallyVars,
                   syncVars>>

\* Faulty variant of NewGameState: the scores are not initialised.
NewGameStateWithoutScores(parts) ==
    [phase |-> "discussion", roundNumber |-> 1, totalRounds |-> TotalRounds,
     votes |-> <<>>, scores |-> <<>>,
     usedImages |-> <<>>, timer |-> DiscussionSeconds, timerInterval |-> Null,
     voteResults |-> ZeroResults]

\* The gameState literal of start-game, scores initialised from the lobby.
NewGameState(parts) ==
    [phase |-> "discussion", roundNumber |-> 1, totalRounds |-> TotalRounds,
     votes |-> <<>>,
     scores |-> [u \in {parts[i].username : i \in DOMAIN parts} |-> 0],
     usedImages |-> <<>>, timer |-> DiscussionSeconds, timerInterval |-> Null,
     voteResults |-> ZeroResults]

\* Faulty variant of StartAccepted: the requester need not be the host.
StartAcceptedFromAnyone(u) ==
    /\ lobbies.exists
    /\ Len(lobbies.participants) >= 2
    /\ Len(gameImages) # 0

\* The condition under which start-game builds a session.
StartAccepted(u) ==
    /\ lobbies.exists
    /\ lobbies.host = u
    /\ Len(lobbies.participants) >= 2
    /\ Len(gameImages) # 0

\* socket.on('start-game')
StartGame(u) ==
    /\ IF StartAccepted(u)
       THEN /\ Len(objects) < MaxSessions
            /\ PendingCount < MaxPending
            /\ lobbies' = [lobbies EXCEPT !.gameStarted = TRUE]
            /\ objects' = Append(Orphaned(objects, gameStates),
                                 NewGameState(lobbies.participants))
            /\ gameStates' = Len(objects) + 1
            /\ timeouts' = [timeouts EXCEPT !.startDiscussionPhase = @ + 1]
       ELSE UNCHANGED <<lobbies, objects, gameStates, timeouts>>
    /\ UNCHANGED <<gameImages, disconnectedPlayers, rejoined, tallyVars,
                   syncVars>>

\* !gameState.votes[username]: no entry, or a falsy value.
HasVoted(votes, u) == u \in DOMAIN votes /\ votes[u] # ""

\* Faulty variant of VoteAccepted: a user who has voted may vote again.
VoteAcceptedAgain(u) ==
    HasSession /\ Session.phase = "voting"

\* Faulty variant of VoteAccepted: a vote is stored in every phase.
VoteAcceptedAnyPhase(u) ==
    HasSession /\ ~HasVoted(Session.votes, u)

\* The condition under which cast-vote stores the vote.
VoteAccepted(u) ==
    HasSession /\ Session.phase = "voting" /\ ~HasVoted(Session.votes, u)

\* socket.on('cast-vote')
CastVote(u, v) ==
    /\ objects' = IF VoteAccepted(u)
                  THEN [objects EXCEPT ![gameStates].votes = Put(@, u, v)]
                  ELSE objects
    /\ UNCHANGED <<gameImages, lobbies, gameStates, disconnectedPlayers,
                   timeouts, rejoined, tallyVars,
                   syncVars>>

RECURSIVE ResetScores(_, _)
ResetScores(scores, parts) ==
    IF parts = <<>> THEN scores
    ELSE ResetScores(Put(scores, Head(parts).username, 0), Tail(parts))

\* The field assignments of restart-game on the existing gameState object.
RestartedState(o, parts) ==
    ClearInterval(
        [o EXCEPT !.phase = "discussion", !.roundNumber = 1,
                  !.votes = <<>>, !.usedImages = <<>>,
                  !.timer = DiscussionSeconds, !.voteResults = ZeroResults,
                  !.scores = ResetScores(@, parts)])

\* Faulty variant of RestartAccepted: the requester need not be the host.
RestartAcceptedFromAnyone(u) ==
    /\ lobbies.exists
    /\ HasSession
    /\ Len(gameImages) # 0

\* The condition under which restart-game resets the session.
RestartAccepted(u) ==
    /\ lobbies.exists
    /\ HasSession
    /\ u = lobbies.host
    /\ Len(gameImages) # 0

\* socket.on('restart-game'), from a socket whose socket.username is u.
RestartGame(u) ==
    /\ IF RestartAccepted(u)
       THEN /\ PendingCount < MaxPending
            /\ objects' = [objects EXCEPT ![gameStates] =
                               RestartedState(@, lobbies.participants)]
            /\ timeouts' = [timeouts EXCEPT !.startDiscussionPhase = @ + 1]
       ELSE UNCHANGED <<objects, timeouts>>
    /\ UNCHANGED <<gameImages, lobbies, gameStates, disconnectedPlayers,
                   rejoined, tallyVars,
                   syncVars>>

-----------------------------------------------------------------------------
(* Game logic functions, as transformers of the heap `objs`; g is the      *)
(* object gameStates.get(code) returned, already known to be non-zero.     *)

\* startTimer(code, seconds, callback): the interval is named by its callback.
StartTimer(objs, g, seconds, callback) ==
    [objs EXCEPT ![g].timer = seconds, ![g].timerInterval = callback]

\* endGame(code): cancels the interval; the phase is not assigned.
EndGame(objs, g) ==
    IF g = 0 THEN objs ELSE [objs EXCEPT ![g] = ClearInterval(@)]

\* Faulty variant of AvailableImages: used images stay available.
AnyImage(o) == DOMAIN gameImages

\* gameImages.filter((image, index) => !usedImages.includes(index)), as the
\* set of catalog positions (1-based) of the available images.
AvailableImages(o) == {i \in DOMAIN gameImages : i \notin Range(o.usedImages)}

\* The branch of startDiscussionPhase that sets a round up with the image at
\* catalog position idx.
SetUpRound(objs, g, idx) ==
    LET selectedImage == gameImages[idx]
        originalIndex == IndexOf(gameImages, selectedImage)
        o == [objs[g] EXCEPT !.usedImages = Append(@, originalIndex),
                             !.phase = "discussion",
                             !.votes = <<>>,
                             !.timer = DiscussionSeconds]
    IN  StartTimer([objs EXCEPT ![g] = ClearInterval(o)], g,
                   DiscussionSeconds, "startVotingPhase")

\* availableImages.length === 0 || roundNumber > totalRounds
NoRoundLeft(o) == AvailableImages(o) = {} \/ o.roundNumber > o.totalRounds

\* startVotingPhase(code)
StartVotingPhase(objs, g) ==
    StartTimer([objs EXCEPT ![g].phase = "voting", ![g].timer = VotingSeconds],
               g, VotingSeconds, "calculateResults")

\* The per-category count of calculateResults.
\* Faulty variant of CountVotes: disconnected participants are counted too.
CountAllVotes(parts, votes, c) ==
    Cardinality({i \in DOMAIN parts :
        /\ parts[i].username \in DOMAIN votes
        /\ votes[parts[i].username] = c})

CountVotes(parts, votes, c) ==
    Cardinality({i \in DOMAIN parts :
        /\ parts[i].connected
        /\ parts[i].username \in DOMAIN votes
        /\ votes[parts[i].username] = c})

VoteResults(parts, votes) ==
    [overrated |-> CountVotes(parts, votes, "overrated"),
     fairlyRated |-> CountVotes(parts, votes, "fairlyRated"),
     underrated |-> CountVotes(parts, votes, "underrated")]

\* Faulty variant of MajorityStep: of several tied options the first wins.
MajorityStepFirstWins(acc, option, n) ==
    IF n > acc.maxVotes
    THEN [majorityOption |-> option, maxVotes |-> n]
    ELSE acc

\* One iteration of Object.entries(voteResults).forEach(...).
MajorityStep(acc, option, n) ==
    IF n > acc.maxVotes
    THEN [majorityOption |-> option, maxVotes |-> n]
    ELSE IF n = acc.maxVotes /\ n > 0
    THEN [acc EXCEPT !.majorityOption = Null]
    ELSE acc

\* The majority of calculateResults, in the key order of the literal.
MajorityOption(r) ==
    MajorityStep(
        MajorityStep(
            MajorityStep([majorityOption |-> Null, maxVotes |-> 0],
                         "overrated", r.overrated),
            "fairlyRated", r.fairlyRated),
        "underrated", r.underrated).majorityOption

\* gameState.scores[username] += 1 (undefined + 1 is NaN)
Increment(scores, u) ==
    IF u \in DOMAIN scores /\ scores[u] # NaN
    THEN Put(scores, u, scores[u] + 1)
    ELSE Put(scores, u, NaN)

\* Faulty variant of AwardPoints: only connected participants score.
RECURSIVE AwardPointsConnected(_, _, _, _)
AwardPointsConnected(scores, parts, votes, majority) ==
    IF parts = <<>> \/ majority = Null THEN scores
    ELSE LET u == Head(parts).username
             s == IF /\ Head(parts).connected
                     /\ u \in DOMAIN votes
                     /\ votes[u] = majority
                  THEN Increment(scores, u) ELSE scores
         IN  AwardPointsConnected(s, Tail(parts), votes, majority)

\* The scoring loop of calculateResults.
RECURSIVE AwardPoints(_, _, _, _)
AwardPoints(scores, parts, votes, majority) ==
    IF parts = <<>> \/ majority = Null THEN scores
    ELSE LET u == Head(parts).username
             s == IF u \in DOMAIN votes /\ votes[u] = majority
                  THEN Increment(scores, u) ELSE scores
         IN  AwardPoints(s, Tail(parts), votes, majority)

\* calculateResults(code), without the setTimeout it ends with.
CalculateResults(objs, g, parts) ==
    LET o == objs[g]
        voteResults == VoteResults(parts, o.votes)
        majority == MajorityOption(voteResults)
    IN  [objs EXCEPT ![g].voteResults = voteResults,
                     ![g].scores = AwardPoints(@, parts, o.votes, majority),
                     ![g].phase = "results"]

-----------------------------------------------------------------------------
(* Timers *)

\* The 2-second / 3-second timeouts: startDiscussionPhase(code)
FireStartDiscussion ==
    /\ timeouts.startDiscussionPhase > 0
    /\ timeouts' = [timeouts EXCEPT !.startDiscussionPhase = @ - 1]
    /\ IF ~HasSession \/ ~lobbies.exists
       THEN UNCHANGED objects
       ELSE IF NoRoundLeft(Session)
       THEN objects' = EndGame(objects, gameStates)
       ELSE \E idx \in AvailableImages(Session) :
                objects' = SetUpRound(objects, gameStates, idx)
    /\ UNCHANGED <<gameImages, lobbies, gameStates, disconnectedPlayers,
                   rejoined, tallyVars,
                   syncVars>>

\* The setInterval callback of startTimer, closed over object i, split by
\* its outcome.  Ticked: gameState.timer--.  Expired: the branch
\* timer <= 0, up to the call of callback().
Ticked(objs, i) == [objs EXCEPT ![i].timer = @ - 1]

Expired(objs, i) == [Ticked(objs, i) EXCEPT ![i].timerInterval = Null]

\* The timer has not run out: only the countdown moves.
TimerTick(i) ==
    /\ i \in DOMAIN objects
    /\ objects[i].timerInterval \in LiveIntervals
    /\ Ticked(objects, i)[i].timer > 0
    /\ objects' = Ticked(objects, i)
    /\ UNCHANGED <<gameImages, lobbies, gameStates, disconnectedPlayers,
                   timeouts, rejoined, tallyVars,
                   syncVars>>

\* The discussion timer runs out: callback() is startVotingPhase(code).
DiscussionTimerExpires(i) ==
    /\ i \in DOMAIN objects
    /\ objects[i].timerInterval = "startVotingPhase"
    /\ Ticked(objects, i)[i].timer <= 0
    /\ objects' = IF HasSession
                  THEN StartVotingPhase(Expired(objects, i), gameStates)
                  ELSE Expired(objects, i)
    /\ UNCHANGED <<gameImages, lobbies, gameStates, disconnectedPlayers,
                   timeouts, rejoined, tallyVars,
                   syncVars>>

\* The voting timer runs out: callback() is calculateResults(code).
VotingTimerExpires(i) ==
    /\ i \in DOMAIN objects
    /\ objects[i].timerInterval = "calculateResults"
    /\ Ticked(objects, i)[i].timer <= 0
    /\ IF HasSession /\ lobbies.exists
       THEN /\ objects' = CalculateResults(Expired(objects, i), gameStates,
                                           lobbies.participants)
            /\ timeouts' = [timeouts EXCEPT !.showScoreboard = @ + 1]
       ELSE /\ objects' = Expired(objects, i)
            /\ UNCHANGED timeouts
    /\ UNCHANGED <<gameImages, lobbies, gameStates, disconnectedPlayers,
                   rejoined, tallyVars,
                   syncVars>>

\* The 5-second timeout of calculateResults: showScoreboard(code)
FireShowScoreboard ==
    /\ timeouts.showScoreboard > 0
    /\ IF HasSession
       THEN /\ objects' = [objects EXCEPT ![gameStates].phase = "scoreboard"]
            /\ timeouts' = [timeouts EXCEPT
                               !.showScoreboard = @ - 1,
                               !.roundAdvance[gameStates] = @ + 1]
       ELSE /\ timeouts' = [timeouts EXCEPT !.showScoreboard = @ - 1]
            /\ UNCHANGED objects
    /\ UNCHANGED <<gameImages, lobbies, gameStates, disconnectedPlayers,
                   rejoined, tallyVars,
                   syncVars>>

\* Faulty variant of SessionOver: the game is over one round early.
SessionOverEarly(o) ==
    o.roundNumber >= o.totalRounds \/ Len(o.usedImages) >= Len(gameImages)

\* roundNumber > totalRounds || usedImages.length >= gameImages.length
SessionOver(o) ==
    o.roundNumber > o.totalRounds \/ Len(o.usedImages) >= Len(gameImages)

\* The 5-second timeout of showScoreboard, closed over object i.
FireRoundAdvance(i) ==
    /\ i \in DOMAIN objects
    /\ timeouts.roundAdvance[i] > 0
    /\ LET bumped == [objects EXCEPT ![i].roundNumber = @ + 1]
       IN  IF SessionOver(bumped[i])
           THEN /\ objects' = EndGame(bumped, gameStates)
                /\ timeouts' = [timeouts EXCEPT !.roundAdvance[i] = @ - 1]
           ELSE /\ objects' = [bumped EXCEPT ![i].phase = "waiting"]
                /\ timeouts' = [timeouts EXCEPT
                                   !.roundAdvance[i] = @ - 1,
                                   !.startDiscussionPhase = @ + 1]
    /\ UNCHANGED <<gameImages, lobbies, gameStates, disconnectedPlayers,
                   rejoined, tallyVars,
                   syncVars>>

\* Wall-clock time passes: every disconnection record ages by one tick
\* (ages past the grace period are not told apart).
ClockTick ==
    /\ \E u \in DOMAIN disconnectedPlayers :
            disconnectedPlayers[u] <= GraceTicks
    /\ disconnectedPlayers' =
           [u \in DOMAIN disconnectedPlayers |->
               IF disconnectedPlayers[u] <= GraceTicks
               THEN disconnectedPlayers[u] + 1 ELSE disconnectedPlayers[u]]
    /\ UNCHANGED <<gameImages, lobbies, gameStates, objects,
                   timeouts, rejoined, tallyVars,
                   syncVars>>

\* now - data.timestamp > timeout
GraceElapsed(u) == disconnectedPlayers[u] > GraceTicks

\* The cleanup interval over disconnectedPlayers.
Sweep ==
    LET evicted == {u \in DOMAIN disconnectedPlayers : GraceElapsed(u)}
    IN  /\ disconnectedPlayers' =
               [u \in DOMAIN disconnectedPlayers \ evicted |->
                   disconnectedPlayers[u]]
        /\ lobbies' =
               IF lobbies.exists
               THEN [lobbies EXCEPT !.participants =
                       SelectSeq(@, LAMBDA p : p.username \notin evicted)]
               ELSE lobbies
        /\ rejoined' = rejoined \ evicted
        /\ UNCHANGED <<gameImages, gameStates, objects, timeouts,
                       tallyVars,
                   syncVars>>

-----------------------------------------------------------------------------
\* start-game while no game has been started in the lobby yet.
StartFirstGame(u) == objects = <<>> /\ StartGame(u)

(***************************************************************************)
(* Spec: one game per lobby.  Every handler and timer runs against a lobby *)
(* whose host starts the game once; the catalog is the one loaded at       *)
(* startup.  Replacing or restarting a running game, and catalog reloads,  *)
(* are the subject of SpecRestart.                                         *)
(***************************************************************************)
Next ==
    \/ \E u \in Creators : ApiCreate(u)
    \/ \E u \in Users : ApiJoin(u)
    \/ \E u \in Users : JoinLobby(u)
    \/ \E u \in Users : LeaveLobby(u)
    \/ \E u \in Users : Disconnect(u)
    \/ \E u \in Users : StartFirstGame(u)
    \/ \E u \in Users, v \in VoteInputs : CastVote(u, v)
    \/ FireStartDiscussion
    \/ \E i \in 1..MaxSessions : TimerTick(i)
    \/ \E i \in 1..MaxSessions : DiscussionTimerExpires(i)
    \/ \E i \in 1..MaxSessions : VotingTimerExpires(i)
    \/ FireShowScoreboard
    \/ \E i \in 1..MaxSessions : FireRoundAdvance(i)
    \/ ClockTick
    \/ Sweep

Spec == Init /\ [][Next]_vars

(***************************************************************************)
(* SpecRestart: the host may start the game again and restart it while it  *)
(* runs, and the catalog is reloaded at any time.  Everybody who joined    *)
(* stays connected, and the only votes are bob's, for one category.        *)
(***************************************************************************)
RestartVoters == {"bob"}

RestartVotes == {"overrated"}

NextRestart ==
    \/ LoadImages
    \/ \E u \in Creators : ApiCreate(u)
    \/ \E u \in Users : ApiJoin(u)
    \/ \E u \in Users : StartGame(u)
    \/ \E u \in Users : RestartGame(u)
    \/ \E u \in RestartVoters, v \in RestartVotes : CastVote(u, v)
    \/ FireStartDiscussion
    \/ \E i \in 1..MaxSessions : TimerTick(i)
    \/ \E i \in 1..MaxSessions : DiscussionTimerExpires(i)
    \/ \E i \in 1..MaxSessions : VotingTimerExpires(i)
    \/ FireShowScoreboard
    \/ \E i \in 1..MaxSessions : FireRoundAdvance(i)

SpecRestart == Init /\ [][NextRestart]_vars

(***************************************************************************)
(* SpecSync: one game in which nobody leaves, with the resynchronization   *)
(* messages of join-lobby and request-sync followed.                       *)
(***************************************************************************)
NextSync ==
    \/ \E u \in Creators : ApiCreate(u)
    \/ \E u \in Users : ApiJoin(u)
    \/ \E u \in Users : StartFirstGame(u)
    \/ \E u \in RestartVoters, v \in RestartVotes : CastVote(u, v)
    \/ \E u \in RestartVoters : JoinLobbyThenSync(u)
    \/ \E u \in RestartVoters : RequestSync(u)
    \/ FireSync
    \/ FireStartDiscussion
    \/ \E i \in 1..MaxSessions : TimerTick(i)
    \/ \E i \in 1..MaxSessions : DiscussionTimerExpires(i)
    \/ \E i \in 1..MaxSessions : VotingTimerExpires(i)
    \/ FireShowScoreboard
    \/ \E i \in 1..MaxSessions : FireRoundAdvance(i)

SpecSync == Init /\ [][NextSync]_vars

(***************************************************************************)
(* SpecGame: one game on a fixed catalog whose lobby is never destroyed     *)
(* (the host stays; the other player may vote, disconnect and come back),   *)
(* with the timers of Node's event loop firing: a pending setTimeout        *)
(* callback and a running setInterval are eventually run.                   *)
(***************************************************************************)
Guests == Users \ Creators

NextGame ==
    \/ \E u \in Creators : ApiCreate(u)
    \/ \E u \in Users : ApiJoin(u)
    \/ \E u \in Users : StartFirstGame(u)
    \/ \E u \in Guests, v \in RestartVotes : CastVote(u, v)
    \/ \E u \in Guests : Disconnect(u)
    \/ \E u \in Guests : JoinLobby(u)
    \/ FireStartDiscussion
    \/ \E i \in 1..MaxSessions : TimerTick(i)
    \/ \E i \in 1..MaxSessions : DiscussionTimerExpires(i)
    \/ \E i \in 1..MaxSessions : VotingTimerExpires(i)
    \/ FireShowScoreboard
    \/ \E i \in 1..MaxSessions : FireRoundAdvance(i)

TimersFire ==
    /\ WF_vars(FireStartDiscussion)
    /\ WF_vars(FireShowScoreboard)
    /\ \A i \in 1..MaxSessions :
           /\ WF_vars(TimerTick(i))
           /\ WF_vars(DiscussionTimerExpires(i))
           /\ WF_vars(VotingTimerExpires(i))
           /\ WF_vars(FireRoundAdvance(i))

SpecGame == Init /\ [][NextGame]_vars /\ TimersFire

(***************************************************************************)
(* SpecTally: the majority computation of calculateResults on every triple *)
(* of counts up to MaxCount.                                               *)
(***************************************************************************)
InitTally ==
    /\ gameImages = <<>>
    /\ lobbies = NoLobby
    /\ gameStates = 0
    /\ objects = <<>>
    /\ disconnectedPlayers = <<>>
    /\ timeouts = NoTimeouts
    /\ rejoined = {}
    /\ tallyInput \in [overrated : 0..MaxCount, fairlyRated : 0..MaxCount,
                        underrated : 0..MaxCount]
    /\ tallyOutput = "unset"
    /\ syncTimeouts = <<>>
    /\ syncMessage = NoMessage

ComputeMajority ==
    /\ tallyOutput = "unset"
    /\ tallyOutput' = MajorityOption(tallyInput)
    /\ UNCHANGED <<gameImages, lobbies, gameStates, objects,
                   disconnectedPlayers, timeouts, rejoined, tallyInput,
                   syncVars>>

NextTally == ComputeMajority

SpecTally == InitTally /\ [][NextTally]_vars

-----------------------------------------------------------------------------
(* Properties *)

Connected(u) ==
    /\ IsParticipant(u)
    /\ lobbies.participants[FindParticipant(lobbies.participants, u)].connected

\* The step keeps the session object stored under the code and is no
\* restart-game: the session before and after it is the same session.
SameSession ==
    /\ HasSession
    /\ gameStates' = gameStates
    /\ ~\E u \in Users : RestartGame(u)

PhaseOrder ==
    {<<"discussion", "voting">>, <<"voting", "results">>,
     <<"results", "scoreboard">>, <<"scoreboard", "waiting">>,
     <<"scoreboard", "ended">>, <<"waiting", "discussion">>}

\* C1: within one session every change of the phase is one of
\* discussion->voting, voting->results, results->scoreboard,
\* scoreboard->waiting, scoreboard->ended, waiting->discussion.
C1_PhaseChangesInOrder ==
    [][SameSession =>
        \/ objects'[gameStates].phase = Session.phase
        \/ <<Session.phase, objects'[gameStates].phase>> \in PhaseOrder]_vars

\* C2: within a session the round number never decreases, and it never
\* exceeds total rounds while the phase is not `ended`.
C2_RoundNumberBounded ==
    [][/\ HasSession /\ Session.phase # "ended"
           => Session.roundNumber <= Session.totalRounds
       /\ SameSession
           => objects'[gameStates].roundNumber >= Session.roundNumber]_vars

\* C3: a participant who disconnected during an active session and joined
\* again before the grace period elapsed is never removed from the
\* participant list by the sweep.
C3_RejoinedNeverSwept ==
    [][Sweep => \A u \in rejoined : IsParticipant(u) => IsParticipant(u)']_vars

\* The step keeps the session object stored under the code and sets no new
\* round up: it lies within one round of one session.
SameRound ==
    /\ HasSession
    /\ gameStates' = gameStates
    /\ objects'[gameStates].usedImages = Session.usedImages
    /\ objects'[gameStates].roundNumber = Session.roundNumber

\* C4: within one round a user's stored vote is final: once a category is
\* stored for the user, no later step of the round replaces or removes it.
C4_OneVotePerRound ==
    [][SameRound =>
        \A u \in DOMAIN Session.votes :
            Session.votes[u] \in Categories =>
                /\ u \in DOMAIN objects'[gameStates].votes
                /\ objects'[gameStates].votes[u] = Session.votes[u]]_vars

\* Everybody has voted while the voting phase is still open, so that every
\* further cast-vote is a second vote.
C4_Witness ==
    /\ HasSession
    /\ Session.phase = "voting"
    /\ \A u \in Users :
           /\ IsParticipant(u)
           /\ u \in DOMAIN Session.votes
           /\ Session.votes[u] \in Categories

\* C5: a step taken while the session is not in the voting phase neither
\* adds nor changes an entry of the vote mapping, and a new session starts
\* with an empty mapping.
C5_VotesOnlyWhileVoting ==
    [][/\ (HasSession /\ gameStates' = gameStates /\ Session.phase # "voting")
           => \A u \in DOMAIN objects'[gameStates].votes :
                  /\ u \in DOMAIN Session.votes
                  /\ objects'[gameStates].votes[u] = Session.votes[u]
       /\ (gameStates' # gameStates /\ gameStates' # 0)
           => objects'[gameStates'].votes = << >>]_vars

\* A round was closed with a participant who has not voted: a cast-vote of
\* that participant now arrives outside the voting phase.
C5_Witness ==
    /\ HasSession
    /\ Session.phase = "results"
    /\ \E u \in Users : IsParticipant(u) /\ u \notin DOMAIN Session.votes
    /\ \E u \in Users : IsParticipant(u) /\ u \in DOMAIN Session.votes

\* The step runs calculateResults on the current session: it is the only
\* step that schedules showScoreboard.
CalculateResultsStep ==
    /\ HasSession
    /\ gameStates' = gameStates
    /\ timeouts'.showScoreboard = timeouts.showScoreboard + 1

\* The users who are connected participants and whose stored vote is c.
ConnectedVoters(c) ==
    {u \in Users : /\ Connected(u)
                   /\ u \in DOMAIN Session.votes
                   /\ Session.votes[u] = c}

\* C6: the tally computed for a round counts, for each category, exactly the
\* participants who are connected at that moment and whose stored vote is
\* that category.
C6_TallyCountsConnected ==
    [][CalculateResultsStep =>
        \A c \in Categories :
            objects'[gameStates].voteResults[c]
                = Cardinality(ConnectedVoters(c))]_vars

\* The tally left out the stored vote of a disconnected participant.
C6_Witness ==
    /\ HasSession
    /\ Session.phase = "results"
    /\ \E u \in Users :
           /\ IsParticipant(u)
           /\ ~Connected(u)
           /\ u \in DOMAIN Session.votes
           /\ Session.votes[u] \in Categories
           /\ Session.voteResults[Session.votes[u]] = 0
    /\ \E c \in Categories : Session.voteResults[c] > 0

\* The category whose count is strictly greater than every other count, or
\* Null when there is none.
StrictMaximum(r) ==
    IF \E c \in Categories : \A d \in Categories \ {c} : r[c] > r[d]
    THEN CHOOSE c \in Categories : \A d \in Categories \ {c} : r[c] > r[d]
    ELSE Null

\* C7: the majority option is the category with strictly the highest count,
\* and there is none when the highest count is shared (all zero included).
C7_MajorityIsStrictMaximum ==
    tallyOutput # "unset" => tallyOutput = StrictMaximum(tallyInput)

\* The highest count is shared by two categories and is not zero, and the
\* computation has answered.
C7_Witness ==
    /\ tallyOutput = Null
    /\ tallyInput.overrated = tallyInput.underrated
    /\ tallyInput.overrated > tallyInput.fairlyRated
    /\ tallyInput.fairlyRated > 0

\* C8: closing a round adds one point to the score of each participant,
\* connected or not, whose stored vote equals the majority option, and
\* leaves every other score as it was; without a majority no score changes.
C8_PointsForMajorityVote ==
    [][CalculateResultsStep =>
        LET majority == StrictMaximum(objects'[gameStates].voteResults)
        IN  \A u \in Users :
                IsParticipant(u) =>
                    /\ u \in DOMAIN Session.scores
                    /\ u \in DOMAIN objects'[gameStates].scores
                    /\ objects'[gameStates].scores[u] =
                           IF /\ majority # Null
                              /\ u \in DOMAIN Session.votes
                              /\ Session.votes[u] = majority
                           THEN Session.scores[u] + 1
                           ELSE Session.scores[u]]_vars

\* A disconnected participant holds a point for a vote equal to the
\* majority option of the round just closed.
C8_Witness ==
    /\ HasSession
    /\ Session.phase = "results"
    /\ \E u \in Users :
           /\ IsParticipant(u)
           /\ ~Connected(u)
           /\ u \in DOMAIN Session.votes
           /\ Session.votes[u] = StrictMaximum(Session.voteResults)
           /\ Session.roundNumber = 1
           /\ Session.scores[u] = 1

\* C9: the list of used image indices of a session holds no index twice.
C9_NoImageTwice ==
    HasSession =>
        \A i, j \in DOMAIN Session.usedImages :
            i # j => Session.usedImages[i] # Session.usedImages[j]

\* A session has set up a second round.
C9_Witness ==
    /\ HasSession
    /\ Len(Session.usedImages) = 2
    /\ Session.roundNumber = 2

\* The step creates a session object, or puts another object under the
\* code, or marks the lobby started.
SessionCreated ==
    \/ Len(objects') # Len(objects)
    \/ gameStates' # gameStates /\ gameStates' # 0
    \/ lobbies.exists /\ lobbies'.exists
           /\ lobbies'.gameStarted /\ ~lobbies.gameStarted

\* C10: a session is created or replaced only by a start-game of the host
\* when the lobby has at least two participants and the catalog is not
\* empty; any other start-game changes nothing.
C10_StartOnlyWhenAllowed ==
    [][/\ SessionCreated =>
              /\ lobbies.exists
              /\ Len(lobbies.participants) >= 2
              /\ Len(gameImages) > 0
              /\ \E u \in Users : StartGame(u)
              /\ \A u \in Users : StartGame(u) => u = lobbies.host
       /\ \A u \in Users :
              (\/ ~lobbies.exists
               \/ u # lobbies.host
               \/ Len(lobbies.participants) < 2
               \/ Len(gameImages) = 0) => ~StartGame(u)]_vars

\* The host of a lobby of two has lost the catalog: start-game is refused.
C10_Witness ==
    /\ lobbies.exists
    /\ Len(lobbies.participants) >= 2
    /\ gameImages = << >>
    /\ gameStates = 0
    /\ ~lobbies.gameStarted

\* C11: a restart-game changes the state only when a session exists and the
\* requester is the host, and then the session has round number 1, no
\* votes, no used images and score 0 for every current participant; a
\* restart-game of anybody else changes nothing.
C11_RestartResetsSession ==
    [][\A u \in Users :
          RestartGame(u) =>
              /\ lobbies.exists
              /\ HasSession
              /\ u = lobbies.host
              /\ gameStates' = gameStates
              /\ objects'[gameStates].roundNumber = 1
              /\ objects'[gameStates].votes = << >>
              /\ objects'[gameStates].usedImages = << >>
              /\ \A p \in Users :
                     IsParticipant(p) =>
                         /\ p \in DOMAIN objects'[gameStates].scores
                         /\ objects'[gameStates].scores[p] = 0]_vars

\* The only session object of the lobby was restarted while the results of
\* a round were on display: its round, used images and scores are reset and
\* the showScoreboard of the round is still pending.
C11_Witness ==
    /\ HasSession
    /\ Len(objects) = 1
    /\ timeouts.showScoreboard > 0
    /\ timeouts.startDiscussionPhase > 0
    /\ Session.roundNumber = 1
    /\ Session.usedImages = << >>
    /\ Session.votes = << >>
    /\ \A p \in Users : IsParticipant(p) /\ Session.scores[p] = 0

\* The lobby exists and no session is running in it: there is no session, or
\* the session is between two rounds.
Quiet == lobbies.exists /\ (HasSession => Session.phase = "waiting")

\* The participants other than u.
Others(u) == {p \in Users : IsParticipant(p) /\ p # u}

\* A leave-lobby or a disconnect of u.
Departure(u) == LeaveLobby(u) \/ Disconnect(u)

\* C12: no session exists without its lobby; while no session is running, a
\* departure of the host, or one that empties the lobby, removes the lobby
\* and its session, and a departure of a non-host with others remaining
\* leaves the lobby in place without that participant.
C12_DepartureDestroysLobby ==
    /\ ~lobbies.exists => gameStates = 0
    /\ \A u \in Users :
           Quiet =>
               IF u = lobbies.host \/ (IsParticipant(u) /\ Others(u) = {})
               THEN ~ENABLED (/\ Departure(u)
                              /\ (lobbies'.exists \/ gameStates' # 0))
               ELSE ~ENABLED (/\ Departure(u)
                              /\ ~(/\ lobbies'.exists
                                   /\ \A p \in Users :
                                          IsParticipant(p)' <=>
                                              p \in Others(u)))

\* C13: the voting phase of a session starts with the full voting time on
\* the timer, the timer goes down by single ticks while the phase is
\* voting, and the phase leaves voting only when the timer has reached 0,
\* whatever votes were cast.
C13_VotingRunsFullTime ==
    [][SameSession =>
        /\ (Session.phase # "voting" /\ objects'[gameStates].phase = "voting")
               => objects'[gameStates].timer = VotingSeconds
        /\ (Session.phase = "voting" /\ objects'[gameStates].phase = "voting")
               => objects'[gameStates].timer
                      \in {Session.timer, Session.timer - 1}
        /\ (Session.phase = "voting" /\ objects'[gameStates].phase # "voting")
               => objects'[gameStates].timer = 0]_vars

\* C14: every 'sync-game-state' message carries the phase, round number,
\* timer, scores and tally the session has at the moment the message is
\* emitted, whatever they were when the resynchronization was asked for.
C14_SyncReflectsDelivery ==
    [][syncMessage' # syncMessage =>
        /\ syncMessage'.sent
        /\ gameStates' # 0
        /\ LET o == objects'[gameStates']
           IN  /\ syncMessage'.gameState.phase = o.phase
               /\ syncMessage'.gameState.roundNumber = o.roundNumber
               /\ syncMessage'.gameState.timer = o.timer
               /\ syncMessage'.gameState.scores = o.scores
               /\ syncMessage'.gameState.voteResults = o.voteResults]_vars

\* A message asked for during the voting of round 1 was emitted after the
\* round was closed and a point was given.
C14_Witness ==
    /\ syncMessage.sent
    /\ syncMessage.requested.phase = "voting"
    /\ syncMessage.gameState.phase = "results"
    /\ syncMessage.gameState.roundNumber = 1
    /\ \E u \in DOMAIN syncMessage.gameState.scores :
           syncMessage.gameState.scores[u] = 1

\* The timers that can still change the phase of the session stored under
\* the code: the pending one-shot callbacks and the running countdowns.
LiveTimers ==
    PendingCount
        + Cardinality({i \in DOMAIN objects :
                           objects[i].timerInterval \in LiveIntervals})

\* C15: while a session exists, at most one timer that can advance its
\* phase is live.
C15_OneLiveTimer == HasSession => LiveTimers <= 1

\* The step is the firing of a timer that the session stored under the code
\* did not schedule: a countdown or round advance that belongs to another
\* session object, or a countdown, a showScoreboard or a round advance
\* while the session has set up no round since it was started or restarted
\* (such a session has scheduled its start delay only).
StaleFiring ==
    \/ \E i \in DOMAIN objects :
           /\ i # gameStates
           /\ \/ TimerTick(i)
              \/ DiscussionTimerExpires(i)
              \/ VotingTimerExpires(i)
              \/ FireRoundAdvance(i)
    \/ /\ Session.usedImages = << >>
       /\ \/ FireShowScoreboard
          \/ \E i \in DOMAIN objects :
                 \/ TimerTick(i)
                 \/ DiscussionTimerExpires(i)
                 \/ VotingTimerExpires(i)
                 \/ FireRoundAdvance(i)

\* C16: the firing of a timer left over from before a restart-game or a
\* second start-game changes neither the phase, the round number, the
\* votes, the scores nor the timer of the session now stored under the code.
C16_StaleTimerIsNoOp ==
    [][(HasSession /\ gameStates' = gameStates /\ StaleFiring) =>
        /\ objects'[gameStates].phase = Session.phase
        /\ objects'[gameStates].roundNumber = Session.roundNumber
        /\ objects'[gameStates].votes = Session.votes
        /\ objects'[gameStates].scores = Session.scores
        /\ objects'[gameStates].timer = Session.timer]_vars

\* The step runs endGame on the session stored under the code: the round
\* advance after the scoreboard finds the game over, or round set-up finds
\* no round left.
EndGameStep ==
    /\ HasSession
    /\ lobbies.exists
    /\ gameStates' = gameStates
    /\ \/ /\ FireRoundAdvance(gameStates)
          /\ SessionOver(objects'[gameStates])
       \/ /\ FireStartDiscussion
          /\ NoRoundLeft(Session)

\* C17: a session that terminates gets the phase `ended`, and keeps it until
\* a start-game or restart-game replaces the session.
C17_TerminatedIsEnded ==
    [][/\ EndGameStep => objects'[gameStates].phase = "ended"
       /\ (SameSession /\ Session.phase = "ended")
              => objects'[gameStates].phase = "ended"]_vars

\* C18: an existing lobby has exactly one participant marked as host, and
\* that participant carries the lobby's host username.
C18_ExactlyOneHost ==
    lobbies.exists =>
        /\ Cardinality({i \in DOMAIN lobbies.participants :
                            lobbies.participants[i].isHost}) = 1
        /\ \E i \in DOMAIN lobbies.participants :
               /\ lobbies.participants[i].isHost
               /\ lobbies.participants[i].username = lobbies.host

\* Every participant of the lobby has a score in the session, and the score
\* is a number.
ScoreForEveryParticipant ==
    (HasSession /\ lobbies.exists) =>
        \A u \in Users :
            IsParticipant(u) =>
                /\ u \in DOMAIN Session.scores
                /\ Session.scores[u] \in Nat

\* A score entry that the step creates, by a new session or for a new
\* participant, is 0.
NewScoresAreZero ==
    gameStates' # 0 =>
        \A u \in DOMAIN objects'[gameStates'].scores :
            (\/ gameStates' # gameStates
             \/ u \notin DOMAIN Session.scores
             \/ ~IsParticipant(u) /\ IsParticipant(u)')
                => objects'[gameStates'].scores[u] = 0

\* C19: while a session exists every participant of the lobby has an integer
\* score in it; participants get 0 when the session is created and a
\* participant who joins during the session gets 0 at the join.
C19_EveryParticipantHasScore ==
    []ScoreForEveryParticipant /\ [][NewScoresAreZero]_vars

\* Both players scored in round 1, then bob left between two rounds and
\* joined again: he is a participant with score 0.
C19_Witness ==
    /\ HasSession
    /\ Session.roundNumber = 2
    /\ \E c \in Categories : Session.voteResults[c] = 2
    /\ IsParticipant("bob")
    /\ Session.scores["alice"] = 1
    /\ Session.scores["bob"] = 0

\* The smaller of two numbers.
Min(a, b) == IF a <= b THEN a ELSE b

\* endGame has run on the session: no timer of the lobby is left, and the
\* rounds played are min(total rounds, catalog size), each with an image of
\* its own.
Terminated ==
    /\ HasSession
    /\ LiveTimers = 0
    /\ Len(Session.usedImages) = Min(Session.totalRounds, Len(gameImages))
    /\ Cardinality(Range(Session.usedImages)) = Len(Session.usedImages)

=============================================================================
